---- MODULE Spec2Model ----
(***************************************************************************)
(* Model of the YouTube mixtape generator: the overlapping crossfade       *)
(* assembly of src/utils.py (create_overlapping_mixtape, apply_fades,      *)
(* get_audio_duration, concatenate_audio) and the request handler of       *)
(* src/app.py (create_mixtape) that drives it.                             *)
(*                                                                         *)
(* Times are integers counted in ticks, TicksPerMs ticks to a millisecond, *)
(* so that a duration reported by ffprobe may carry a sub-millisecond      *)
(* part and int(delay_time * 1000) is a real truncation.                   *)
(***************************************************************************)
EXTENDS Integers, Sequences, FiniteSets, TLC

\* ---------------------------------------------------------------- bounds
MaxN == 3
MaxDur == 3
MaxOverlap == 2
MaxFade == 2
TicksPerMs == 2

\* one second, in ticks
Sec == 1000 * TicksPerMs

\* ------------------------------------------------------- program constants
\* aresample target of the final node (utils.py:426)
SampleRate == 44100
\* amix=inputs=2 (utils.py:422)
MixInputs == 2

VARIABLES
  \* ---- arguments of create_overlapping_mixtape
  segment_files,     \* ordered list of segment file ids
  fade_durations,    \* ordered list of [fadeIn, fadeOut] requests
  overlap_duration,  \* ticks
  \* ---- the files on disk: what ffprobe would report for file id f (index f+1)
  fileDur,
  \* ---- locals of create_overlapping_mixtape
  pc, i, j, track_ref, current_output, total_previous_duration, filter_complex,
  delay_times,       \* delay_time of segments 1, 2, ... as computed so far
  \* ---- observable effects
  calls,             \* the audio engine invocations so far, in order
  fade_cmd,          \* the -af filters apply_fades passed (single-segment path)
  concat_list,       \* the list concatenate_audio wrote to its concat file
  result, error,     \* how create_overlapping_mixtape ended
  \* ---- create_mixtape (app.py)
  appPc, form, songs, k, processed_files, fade_info, flash,
  session,           \* the session directory: "none", "created" or "removed"
  disk,              \* the files in the session directory
  \* ---- download_youtube_audio (utils.py)
  has_selenium,      \* HAS_SELENIUM, fixed when the module is imported
  dlPc, attempt,     \* position in the call and its loop variable
  tries,             \* the provider attempts of the call, in order
  dl_result          \* how the call ended

mixVars == <<segment_files, fade_durations, overlap_duration, pc, i, j, track_ref,
             current_output, total_previous_duration, filter_complex, delay_times,
             fade_cmd, concat_list, result, error>>
dlVars == <<has_selenium, dlPc, attempt, tries, dl_result>>
appVars == <<appPc, form, songs, k, processed_files, fade_info, flash, session, dlVars>>
vars == <<mixVars, appVars, fileDur, calls, disk>>

\* ---------------------------------------------------------------- helpers
Max(a, b) == IF a >= b THEN a ELSE b

RECURSIVE SumTo(_, _)
\* sum of the first n elements of s
SumTo(s, n) == IF n = 0 THEN 0 ELSE SumTo(s, n - 1) + s[n]

\* stream labels of the filter graph: [i:a], [faded i], [delayed i], [mixed i], [out]
InputRef(n) == <<"in", n>>
Faded(n) == <<"faded", n>>
Delayed(n) == <<"delayed", n>>
Mixed(n) == <<"mixed", n>>
Out == <<"out", 0>>

\* afade=t=in:d=D   and   afade=t=out:st=S:d=D
AfadeIn(d) == [t |-> "in", st |-> 0, d |-> d]
AfadeOut(st, d) == [t |-> "out", st |-> st, d |-> d]

\* one entry of filter_complex
Node(op, ins, filters, num, out) ==
  [op |-> op, ins |-> ins, filters |-> filters, num |-> num, out |-> out]

\* one run of ffmpeg or ffprobe: what was run, on which file (-1: on all the
\* segments), its exit code, and whether its stdout parsed as a number
Call(op, f, rc, parses) == [op |-> op, file |-> f, rc |-> rc, parses |-> parses]

\* ------------------------------------------------------ get_audio_duration
Raised == [raised |-> TRUE, value |-> 0]
Returned(v) == [raised |-> FALSE, value |-> v]

\* a variant that substitutes a zero duration when ffprobe fails
get_audio_duration_default(f, rc, parses) ==
  IF rc # 0 \/ ~parses THEN Returned(0) ELSE Returned(fileDur[f + 1])

\* utils.py:330-344: a non-zero exit raises, an unparseable stdout raises,
\* otherwise float(stdout), the duration of the file
get_audio_duration(f, rc, parses) ==
  IF rc # 0 THEN Raised
  ELSE IF ~parses THEN Raised
  ELSE Returned(fileDur[f + 1])

\* what one ffprobe run can do: exit code and whether stdout is a number
ProbeRuns == {[rc |-> 0, parses |-> TRUE], [rc |-> 0, parses |-> FALSE],
              [rc |-> 1, parses |-> FALSE]}

ExitCodes == {0, 1}

\* --------------------------------------------------------------- the fades
\* a variant that lets the fade-out start go negative
apply_fades_filters_nomax(fade_in, fade_out, total_duration) ==
  (IF fade_in > 0 THEN <<AfadeIn(fade_in)>> ELSE <<>>)
  \o (IF fade_out > 0 THEN <<AfadeOut(total_duration - fade_out, fade_out)>> ELSE <<>>)

\* utils.py:304-310, the filters of apply_fades
apply_fades_filters(fade_in, fade_out, total_duration) ==
  LET fade_out_start == Max(0, total_duration - fade_out)
  IN (IF fade_in > 0 THEN <<AfadeIn(fade_in)>> ELSE <<>>)
     \o (IF fade_out > 0 THEN <<AfadeOut(fade_out_start, fade_out)>> ELSE <<>>)

\* a variant that tests the fades with >= instead of >
fade_filters_ge(fade_in, fade_out, segment_duration) ==
  LET fade_out_start == Max(0, segment_duration - fade_out)
  IN (IF fade_in >= 0 THEN <<AfadeIn(fade_in)>> ELSE <<>>)
     \o (IF fade_out >= 0 THEN <<AfadeOut(fade_out_start, fade_out)>> ELSE <<>>)

\* utils.py:394-401, the fade filters of one segment of the mix graph
fade_filters(fade_in, fade_out, segment_duration) ==
  LET fade_out_start == Max(0, segment_duration - fade_out)
  IN (IF fade_in > 0 THEN <<AfadeIn(fade_in)>> ELSE <<>>)
     \o (IF fade_out > 0 THEN <<AfadeOut(fade_out_start, fade_out)>> ELSE <<>>)

\* --------------------------------------------------------------- the delay
\* a variant that resets the overlap at every join
delay_time_pairwise(total, overlap, n) == Max(0, total - overlap)

\* utils.py:418
delay_time(total, overlap, n) == Max(0, total - (overlap * n))

\* a variant that rounds the delay up to the next millisecond
adelay_ms_ceil(delay) == (delay + TicksPerMs - 1) \div TicksPerMs

\* utils.py:421, int(delay_time * 1000): whole milliseconds, truncated
adelay_ms(delay) == delay \div TicksPerMs

\* utils.py:404
FadeNode(n, filters) == Node("afade", <<InputRef(n)>>, filters, 0, Faded(n))
\* utils.py:421
DelayNode(ref, ms, n) == Node("adelay", <<ref>>, <<>>, ms, Delayed(n))
\* utils.py:422
MixNode(cur, n) == Node("amix", <<cur, Delayed(n)>>, <<>>, MixInputs, Mixed(n))
\* utils.py:426
ResampleNode(cur) == Node("aresample", <<cur>>, <<>>, SampleRate, Out)


\* a variant that keeps only the last probed duration (= instead of +=)
accumulate_last(total, prev_duration) == prev_duration

\* utils.py:416
accumulate(total, prev_duration) == total + prev_duration

\* a variant that takes the mix path for a single segment too
is_single_never(files) == FALSE

\* utils.py:372
is_single(files) == Len(files) = 1

\* a variant that falls back to concatenation whatever ffmpeg returned
after_graph_always_concat(rc) == "concat"

\* utils.py:435-438: a non-zero exit falls back to concatenate_audio
after_graph(rc) == IF rc # 0 THEN "concat" ELSE "done"

\* a variant that mixes every delayed track with the first input
mix_left_first(cur) == InputRef(0)

\* utils.py:422: the left input of the amix is the running output
mix_left(cur) == cur

\* utils.py:351-352: the concat file lists the inputs in the order given
concat_file_lines(input_files) == input_files

\* --------------------------------------------- create_overlapping_mixtape
Raise(kind) ==
  /\ pc' = "done"
  /\ result' = "raised"
  /\ error' = kind

\* the end of one iteration of the loop at utils.py:388: the next segment, or
\* the final resample node (utils.py:426) and the ffmpeg run
NextSegment(fc, cur) ==
  /\ current_output' = cur
  /\ IF i + 1 < Len(segment_files)
     THEN /\ i' = i + 1
          /\ pc' = "seg_probe"
          /\ filter_complex' = fc
     ELSE /\ i' = i
          /\ pc' = "run_graph"
          /\ filter_complex' = Append(fc, ResampleNode(cur))

\* utils.py:370-386: the single-segment test and the set-up of the graph
Enter ==
  /\ pc = "entry"
  /\ IF is_single(segment_files)
     THEN /\ pc' = "single_probe"
          /\ UNCHANGED <<current_output, filter_complex>>
     ELSE /\ current_output' = InputRef(0)
          /\ IF Len(segment_files) = 0
             THEN /\ filter_complex' = <<ResampleNode(InputRef(0))>>
                  /\ pc' = "run_graph"
             ELSE /\ filter_complex' = <<>>
                  /\ pc' = "seg_probe"
  /\ i' = 0
  /\ UNCHANGED <<segment_files, fade_durations, overlap_duration, j, track_ref,
                 total_previous_duration, delay_times, fade_cmd, concat_list,
                 result, error, appVars, fileDur, disk, calls>>

\* utils.py:373-374: the probe of the only segment
SingleProbe ==
  /\ pc = "single_probe"
  /\ \E run \in ProbeRuns :
       LET f == segment_files[1]
           d == get_audio_duration(f, run.rc, run.parses)
       IN /\ calls' = Append(calls, Call("ffprobe", f, run.rc, run.parses))
          /\ IF d.raised
             THEN /\ Raise("probe")
                  /\ UNCHANGED total_previous_duration
             ELSE /\ pc' = "single_fade"
                  /\ total_previous_duration' = d.value
                  /\ UNCHANGED <<result, error>>
  /\ UNCHANGED <<segment_files, fade_durations, overlap_duration, i, j, track_ref,
                 current_output, filter_complex, delay_times, fade_cmd, concat_list,
                 appVars, fileDur, disk>>

\* the output file of create_overlapping_mixtape (app.py:107)
FinalFile == <<"final", 0>>

\* utils.py:321-326, 428-434, 357-361: an ffmpeg run with -y on output_file
\* writes the file when it exits with 0; a run that fails may have left it
ffmpeg_output(files, rc, left) ==
  IF rc = 0 \/ left THEN files \cup {FinalFile} ELSE files

\* utils.py:375-376 and 302-328: apply_fades on the only segment
SingleFade ==
  /\ pc = "single_fade"
  /\ \E rc \in ExitCodes, left \in BOOLEAN :
       LET song_info == fade_durations[1]
           filters == apply_fades_filters(song_info.fadeIn, song_info.fadeOut,
                                          total_previous_duration)
       IN /\ fade_cmd' = filters
          /\ calls' = Append(calls, Call("fade", segment_files[1], rc, TRUE))
          /\ disk' = ffmpeg_output(disk, rc, left)
          /\ IF rc # 0
             THEN Raise("fade")
             ELSE /\ pc' = "done"
                  /\ result' = "returned"
                  /\ UNCHANGED error
  /\ UNCHANGED <<segment_files, fade_durations, overlap_duration, i, j, track_ref,
                 current_output, total_previous_duration, filter_complex,
                 delay_times, concat_list, appVars, fileDur>>

\* utils.py:389-411: the probe of segment i, its fade node, and the branch on i
SegProbe ==
  /\ pc = "seg_probe"
  /\ \E run \in ProbeRuns :
       LET f == segment_files[i + 1]
           d == get_audio_duration(f, run.rc, run.parses)
           song_info == fade_durations[i + 1]
           filters == fade_filters(song_info.fadeIn, song_info.fadeOut, d.value)
           fc == IF filters # <<>>
                 THEN Append(filter_complex, FadeNode(i, filters))
                 ELSE filter_complex
           ref == IF filters # <<>> THEN Faded(i) ELSE InputRef(i)
       IN /\ calls' = Append(calls, Call("ffprobe", f, run.rc, run.parses))
          /\ IF d.raised
             THEN /\ Raise("probe")
                  /\ UNCHANGED <<i, j, track_ref, current_output,
                                 total_previous_duration, filter_complex>>
             ELSE /\ UNCHANGED <<result, error>>
                  /\ track_ref' = ref
                  /\ IF i = 0
                     THEN /\ NextSegment(fc, ref)
                          /\ UNCHANGED <<j, total_previous_duration>>
                     ELSE /\ filter_complex' = fc
                          /\ total_previous_duration' = 0
                          /\ j' = 0
                          /\ pc' = "prev_probe"
                          /\ UNCHANGED <<i, current_output>>
  /\ UNCHANGED <<segment_files, fade_durations, overlap_duration, delay_times,
                 fade_cmd, concat_list, appVars, fileDur, disk>>

\* utils.py:414-423: one probe of an earlier segment; after the last one the
\* delay and the mix nodes of segment i
PrevProbe ==
  /\ pc = "prev_probe"
  /\ \E run \in ProbeRuns :
       LET f == segment_files[j + 1]
           d == get_audio_duration(f, run.rc, run.parses)
           total == accumulate(total_previous_duration, d.value)
           delay == delay_time(total, overlap_duration, i)
           fc == filter_complex
                 \o <<DelayNode(track_ref, adelay_ms(delay), i),
                      MixNode(mix_left(current_output), i)>>
       IN /\ calls' = Append(calls, Call("ffprobe", f, run.rc, run.parses))
          /\ IF d.raised
             THEN /\ Raise("probe")
                  /\ UNCHANGED <<i, j, current_output, total_previous_duration,
                                 filter_complex, delay_times>>
             ELSE /\ UNCHANGED <<result, error>>
                  /\ total_previous_duration' = total
                  /\ IF j + 1 < i
                     THEN /\ j' = j + 1
                          /\ UNCHANGED <<pc, i, current_output, filter_complex,
                                         delay_times>>
                     ELSE /\ j' = j
                          /\ delay_times' = Append(delay_times, delay)
                          /\ NextSegment(fc, Mixed(i))
  /\ UNCHANGED <<segment_files, fade_durations, overlap_duration, track_ref,
                 fade_cmd, concat_list, appVars, fileDur, disk>>

\* utils.py:428-438: ffmpeg runs the filter graph
RunGraph ==
  /\ pc = "run_graph"
  /\ \E rc \in ExitCodes, left \in BOOLEAN :
       /\ calls' = Append(calls, Call("graph", -1, rc, TRUE))
       /\ disk' = ffmpeg_output(disk, rc, left)
       /\ pc' = after_graph(rc)
       /\ result' = IF after_graph(rc) = "done" THEN "returned" ELSE result
  /\ UNCHANGED <<segment_files, fade_durations, overlap_duration, i, j, track_ref,
                 current_output, total_previous_duration, filter_complex,
                 delay_times, fade_cmd, concat_list, error, appVars, fileDur>>

\* utils.py:346-368: concatenate_audio on the original segment files
Concat ==
  /\ pc = "concat"
  /\ \E rc \in ExitCodes, left \in BOOLEAN :
       /\ concat_list' = concat_file_lines(segment_files)
       /\ calls' = Append(calls, Call("concat", -1, rc, TRUE))
       /\ disk' = ffmpeg_output(disk, rc, left)
       /\ IF rc # 0
          THEN Raise("concat")
          ELSE /\ pc' = "done"
               /\ result' = "returned"
               /\ UNCHANGED error
  /\ UNCHANGED <<segment_files, fade_durations, overlap_duration, i, j, track_ref,
                 current_output, total_previous_duration, filter_complex,
                 delay_times, fade_cmd, appVars, fileDur>>

\* ------------------------------------------------- create_mixtape (app.py)
\* overlap_duration=3.0, the value app.py:113 passes and the default of utils.py:370
OverlapSeconds == 3
\* the form defaults of fade_in_i and fade_out_i (app.py:48-49), seconds
DefaultFadeSeconds == 2

\* a variant without the empty-list test
no_songs_never(parsed) == FALSE

\* app.py:54, `if not songs`
no_songs(parsed) == parsed = <<>>

\* app.py:58-65: a song with an invalid URL or with endTime <= startTime
invalid_song(song) == song.url # "ok" \/ song.endTime <= song.startTime

RECURSIVE parse_form(_)
\* app.py:39-51: the entries of the form that carry a URL, in form order
parse_form(entries) ==
  IF entries = <<>> THEN <<>>
  ELSE IF Head(entries).url # ""
       THEN <<Head(entries)>> \o parse_form(Tail(entries))
       ELSE parse_form(Tail(entries))

\* app.py:123-130: the handler of an exception raised inside the build
Fail ==
  /\ appPc' = "done"
  /\ flash' = "error"

\* app.py:123-125: the handler inside the build removes the session directory
\* with everything in it, then the exception reaches the outer handler
FailBuild ==
  /\ Fail
  /\ disk' = {}
  /\ session' = "removed"

\* app.py:79, download_<k> with the suffix the provider gave it
DownloadFile(n) == <<"download", n>>
\* app.py:90, segment_<k>.mp3
SegmentFile(n) == <<"segment", n>>

\* app.py:46-49: float() of a field that is no number raises ValueError; only
\* the entries that carry a URL are converted
form_raises(entries) ==
  \E n \in 1..Len(entries) : entries[n].url # "" /\ ~entries[n].numbers

\* app.py:37-73: parsing, validation, creation of the session directory
HandleRequest ==
  /\ appPc = "request"
  /\ IF form_raises(form)
     THEN /\ Fail
          /\ UNCHANGED songs
     ELSE LET parsed == parse_form(form)
          IN /\ songs' = parsed
             /\ IF no_songs(parsed)
                THEN /\ appPc' = "done"
                     /\ flash' = "rejected_empty"
                ELSE IF \E n \in 1..Len(parsed) : invalid_song(parsed[n])
                THEN /\ appPc' = "done"
                     /\ flash' = "rejected_invalid"
                ELSE /\ appPc' = IF Len(parsed) > 0 THEN "download" ELSE "call_mix"
                     /\ flash' = flash
  /\ session' = IF appPc' = "done" THEN session ELSE "created"
  /\ k' = 0
  /\ processed_files' = <<>>
  /\ fade_info' = <<>>
  /\ UNCHANGED <<form, mixVars, fileDur, calls, disk, dlVars>>

\* ------------------------------------ download_youtube_audio (utils.py)
\* range(2), the attempts of the primary provider (utils.py:249)
PrimaryAttempts == 2

\* what a browser can leave in the download directory without the poll loops
\* ever accepting it (utils.py:104-112, 214-222): a .crdownload file, and a
\* media file of at most 10240 bytes
PartialFile == <<"partial", 0>>
StrayFile == <<"stray", 0>>

Attempt(provider, outcome) == [provider |-> provider, outcome |-> outcome]

\* utils.py:51-132: one run of download_youtube_audio_cnvmp3. It returns the
\* file moved to the download path, or raises; a run that raises removes
\* nothing of what the browser wrote
CnvRuns ==
  {[ok |-> TRUE, left |-> {}]}
  \cup {[ok |-> FALSE, left |-> l] : l \in SUBSET {PartialFile, StrayFile}}

\* utils.py:147-155: ytmp3 first deletes the media files that are not the
\* build's own; a .crdownload file has no media suffix and stays
ytmp3_cleanup(files) == files \ {StrayFile}

\* utils.py:119-123, 232-236, 258, 269: a provider moved its file to the
\* download path and download_youtube_audio returns it
DownloadReturned(files) ==
  /\ dl_result' = "returned"
  /\ dlPc' = "returned"
  /\ disk' = files \cup {DownloadFile(k)}
  /\ UNCHANGED <<appPc, flash, session>>

\* download_youtube_audio raises (utils.py:244, 273) inside the build
DownloadRaised ==
  /\ dl_result' = "raised"
  /\ dlPc' = "idle"
  /\ FailBuild

\* app.py:79-80 and utils.py:241-246: the call for song k and its first test
Download ==
  /\ appPc = "download"
  /\ dlPc = "idle"
  /\ tries' = <<>>
  /\ attempt' = 0
  /\ IF ~has_selenium
     THEN DownloadRaised
     ELSE /\ dlPc' = "cnvmp3"
          /\ dl_result' = "none"
          /\ UNCHANGED <<appPc, flash, session, disk>>
  /\ UNCHANGED <<form, songs, k, processed_files, fade_info, has_selenium,
                 mixVars, fileDur, calls>>

\* utils.py:249-264: one pass of the loop over the primary provider
Cnvmp3Attempt ==
  /\ appPc = "download"
  /\ dlPc = "cnvmp3"
  /\ \E run \in CnvRuns :
       IF run.ok
       THEN /\ tries' = Append(tries, Attempt("cnvmp3", "ok"))
            /\ DownloadReturned(disk)
            /\ UNCHANGED attempt
       ELSE /\ tries' = Append(tries, Attempt("cnvmp3", "failed"))
            /\ disk' = disk \cup run.left
            /\ IF attempt + 1 < PrimaryAttempts
               THEN /\ attempt' = attempt + 1
                    /\ UNCHANGED dlPc
               ELSE /\ dlPc' = "ytmp3"
                    /\ UNCHANGED attempt
            /\ UNCHANGED <<appPc, flash, session, dl_result>>
  /\ UNCHANGED <<form, songs, k, processed_files, fade_info, has_selenium,
                 mixVars, fileDur, calls>>

\* utils.py:266-273 and 134-239: the fallback provider. Without a download
\* button it goes on to call the primary provider (utils.py:200)
Ytmp3Attempt ==
  /\ appPc = "download"
  /\ dlPc = "ytmp3"
  /\ \E outcome \in {"ok", "failed", "no_button"} :
       /\ tries' = Append(tries, Attempt("ytmp3", outcome))
       /\ CASE outcome = "ok" -> DownloadReturned(ytmp3_cleanup(disk))
            [] outcome = "failed" -> DownloadRaised
            [] outcome = "no_button" ->
                 /\ dlPc' = "ytmp3_cnvmp3"
                 /\ disk' = ytmp3_cleanup(disk)
                 /\ UNCHANGED <<appPc, flash, session, dl_result>>
  /\ UNCHANGED <<form, songs, k, processed_files, fade_info, has_selenium,
                 attempt, mixVars, fileDur, calls>>

\* utils.py:200-206 and 270-273: download_youtube_audio_cnvmp3 called from
\* inside download_youtube_audio_ytmp3; its file is returned as the
\* fallback's, its exception is the fallback's failure
Ytmp3Cnvmp3 ==
  /\ appPc = "download"
  /\ dlPc = "ytmp3_cnvmp3"
  /\ \E run \in CnvRuns :
       IF run.ok
       THEN /\ tries' = Append(tries, Attempt("cnvmp3", "ok"))
            /\ DownloadReturned(disk)
       ELSE /\ tries' = Append(tries, Attempt("cnvmp3", "failed"))
            /\ DownloadRaised
  /\ UNCHANGED <<form, songs, k, processed_files, fade_info, has_selenium,
                 attempt, mixVars, fileDur, calls>>

\* app.py:82-83: the test of the file the call returned. The providers accept
\* no file of 10240 bytes or less, so the test passes; the frame of the call
\* is gone
CheckDownload ==
  /\ appPc = "download"
  /\ dlPc = "returned"
  /\ IF DownloadFile(k) \in disk
     THEN /\ appPc' = "extract"
          /\ UNCHANGED <<flash, session, disk>>
     ELSE FailBuild
  /\ dlPc' = "idle"
  /\ attempt' = 0
  /\ tries' = <<>>
  /\ dl_result' = "none"
  /\ UNCHANGED <<form, songs, k, processed_files, fade_info, has_selenium,
                 mixVars, fileDur, calls>>

\* the durations an extracted segment can have, ticks
SegmentDurations == {d * Sec : d \in 1..MaxDur}

\* app.py:85-104 and utils.py:275-300: extract_segment for song k
Extract ==
  /\ appPc = "extract"
  /\ \E rc \in ExitCodes, written \in BOOLEAN, d \in SegmentDurations :
       /\ calls' = Append(calls, Call("extract", k, rc, TRUE))
       /\ IF rc # 0 \/ ~written
          THEN /\ FailBuild
               /\ UNCHANGED <<k, processed_files, fade_info, fileDur>>
          ELSE /\ processed_files' = Append(processed_files, k)
               /\ fade_info' = Append(fade_info, [fadeIn |-> songs[k + 1].fadeIn,
                                                  fadeOut |-> songs[k + 1].fadeOut])
               /\ fileDur' = Append(fileDur, d)
               /\ k' = k + 1
               /\ appPc' = IF k + 1 < Len(songs) THEN "download" ELSE "call_mix"
               /\ disk' = (disk \cup {SegmentFile(k)}) \ {DownloadFile(k)}
               /\ UNCHANGED <<flash, session>>
  /\ UNCHANGED <<form, songs, mixVars, dlVars>>

\* app.py:106-113: the call of create_overlapping_mixtape
CallMix ==
  /\ appPc = "call_mix"
  /\ appPc' = "mixing"
  /\ segment_files' = processed_files
  /\ fade_durations' = fade_info
  /\ overlap_duration' = OverlapSeconds * Sec
  /\ pc' = "entry"
  /\ UNCHANGED <<i, j, track_ref, current_output, total_previous_duration,
                 filter_complex, delay_times, fade_cmd, concat_list, result, error,
                 form, songs, k, processed_files, fade_info, flash, fileDur, calls,
                 session, disk, dlVars>>

\* app.py:115-130: after the call, the success page or the exception handler
AfterMix ==
  /\ appPc = "mixing"
  /\ pc = "done"
  /\ IF result = "raised"
     THEN FailBuild
     ELSE /\ appPc' = "done"
          /\ flash' = "success"
          /\ disk' = disk \ {SegmentFile(processed_files[n]) : n \in 1..Len(processed_files)}
          /\ UNCHANGED session
  /\ UNCHANGED <<form, songs, k, processed_files, fade_info, mixVars, fileDur, calls,
                 dlVars>>

\* ------------------------------------------------------------ initial states
InitLocals ==
  /\ i = 0 /\ j = 0
  /\ track_ref = InputRef(0)
  /\ current_output = InputRef(0)
  /\ total_previous_duration = 0
  /\ filter_complex = <<>>
  /\ delay_times = <<>>
  /\ calls = <<>>
  /\ fade_cmd = <<>>
  /\ concat_list = <<>>
  /\ result = "none"
  /\ error = ""

NoApp ==
  /\ appPc = "direct"
  /\ form = <<>> /\ songs = <<>> /\ k = 0
  /\ processed_files = <<>> /\ fade_info = <<>>
  /\ flash = "none"
  /\ session = "created"
  /\ has_selenium = TRUE
  /\ dlPc = "idle" /\ attempt = 0 /\ tries = <<>> /\ dl_result = "none"

FadeReq(a, b) == [fadeIn |-> a, fadeOut |-> b]

\* no fade, or the same short fade on both ends
BasicFades == {FadeReq(f, f) : f \in 0..1}
\* negative, zero, inside the segment, and at or beyond its end
AllFades == {FadeReq(a, b) : a, b \in (-1)..MaxFade}

\* the files segment_0 .. segment_(n-1)
Files(n) == [m \in 1..n |-> m - 1]

\* the timeline: up to MaxN segments of every duration, every overlap
TimelineInputs ==
  \E n \in 1..MaxN :
    /\ segment_files = Files(n)
    /\ fileDur \in [1..n -> 1..MaxDur]
    /\ fade_durations \in [1..n -> BasicFades]
    /\ overlap_duration \in 0..MaxOverlap

\* the fades: one segment (apply_fades) and two (the mix graph), every request
FadeInputs ==
  \E n \in {1, 2} :
    /\ segment_files = Files(n)
    /\ fileDur \in [1..n -> 1..MaxDur]
    /\ fade_durations \in [1..n -> AllFades]
    /\ overlap_duration = 1

\* whole seconds: three segments of 30, 25, 20 s and of 30.0005, 25, 20 s with
\* the default overlap; one segment of 40 s with fades 2 and 5; one segment of
\* 10 s with a fade-in of 100
ScenarioInputs ==
  \/ /\ segment_files = Files(3)
     /\ fileDur \in {<<30 * Sec, 25 * Sec, 20 * Sec>>, <<30 * Sec + 1, 25 * Sec, 20 * Sec>>}
     /\ fade_durations = [m \in 1..3 |-> FadeReq(DefaultFadeSeconds * Sec, DefaultFadeSeconds * Sec)]
     /\ overlap_duration \in {0, OverlapSeconds * Sec}
  \/ /\ segment_files = Files(1)
     /\ fileDur = <<40 * Sec>>
     /\ fade_durations = <<FadeReq(2 * Sec, 5 * Sec)>>
     /\ overlap_duration = OverlapSeconds * Sec
  \/ /\ \E n \in {1, 2} : segment_files = Files(n) /\ fileDur = [m \in 1..n |-> 10 * Sec]
                          /\ fade_durations = [m \in 1..n |-> FadeReq(100 * Sec, 0)]
     /\ overlap_duration = OverlapSeconds * Sec

\* a direct call of create_overlapping_mixtape
Init ==
  /\ InitLocals
  /\ NoApp
  /\ pc = "entry"
  /\ (TimelineInputs \/ FadeInputs \/ ScenarioInputs)
  /\ disk = {SegmentFile(segment_files[m]) : m \in 1..Len(segment_files)}

\* the entries of a form: without URL, with a valid or an invalid URL; with
\* endTime after startTime or not; without fades or with the default ones;
\* and entries whose numeric fields are no numbers
FormEntries ==
  {[url |-> u, numbers |-> TRUE, startTime |-> t[1], endTime |-> t[2],
    fadeIn |-> f, fadeOut |-> f] :
     u \in {"", "ok", "bad"},
     t \in {<<0, 30 * Sec>>, <<30 * Sec, 30 * Sec>>},
     f \in {0, DefaultFadeSeconds * Sec}}
  \cup
  {[url |-> u, numbers |-> FALSE, startTime |-> 0, endTime |-> 0,
    fadeIn |-> 0, fadeOut |-> 0] : u \in {"ok", "bad"}}

\* a request arriving at /create
InitApp ==
  /\ InitLocals
  /\ pc = "idle"
  /\ segment_files = <<>> /\ fade_durations = <<>> /\ overlap_duration = 0
  /\ fileDur = <<>>
  /\ appPc = "request"
  /\ \E n \in 0..MaxN : form \in [1..n -> FormEntries]
  /\ songs = <<>> /\ k = 0
  /\ processed_files = <<>> /\ fade_info = <<>>
  /\ flash = "none"
  /\ session = "none" /\ disk = {}
  /\ has_selenium \in BOOLEAN
  /\ dlPc = "idle" /\ attempt = 0 /\ tries = <<>> /\ dl_result = "none"

Next ==
  \/ Enter
  \/ SingleProbe
  \/ SingleFade
  \/ SegProbe
  \/ PrevProbe
  \/ RunGraph
  \/ Concat

Spec == Init /\ [][Next]_vars

NextApp ==
  \/ HandleRequest
  \/ Download
  \/ Cnvmp3Attempt
  \/ Ytmp3Attempt
  \/ Ytmp3Cnvmp3
  \/ CheckDownload
  \/ Extract
  \/ CallMix
  \/ AfterMix
  \/ Enter
  \/ SingleProbe
  \/ SingleFade
  \/ SegProbe
  \/ PrevProbe
  \/ RunGraph
  \/ Concat

SpecApp == InitApp /\ [][NextApp]_vars

\* ======================================================== properties
N == Len(segment_files)
Min(a, b) == IF a <= b THEN a ELSE b

\* the duration on disk of the segment at position m (1-based) of segment_files
SegDur(m) == fileDur[segment_files[m] + 1]

RECURSIVE PrevSum(_)
\* the durations of the first n segments, summed
PrevSum(n) == IF n = 0 THEN 0 ELSE PrevSum(n - 1) + SegDur(n)

NodesOf(op) == {idx \in 1..Len(filter_complex) : filter_complex[idx].op = op}
Defs(label) == {idx \in 1..Len(filter_complex) : filter_complex[idx].out = label}
Uses(label) ==
  {u \in (1..Len(filter_complex)) \X (1..2) :
     /\ u[2] <= Len(filter_complex[u[1]].ins)
     /\ filter_complex[u[1]].ins[u[2]] = label}

\* the graph is complete: its last node is the resample
GraphBuilt ==
  /\ filter_complex # <<>>
  /\ filter_complex[Len(filter_complex)].op = "aresample"

\* the milliseconds of the adelay node of segment n
DelayMsOf(n) == filter_complex[CHOOSE idx \in Defs(Delayed(n)) : TRUE].num

\* where the segment at position m (1-based) starts on the output, ticks
StartTicks(m) == IF m = 1 THEN 0 ELSE DelayMsOf(m - 1) * TicksPerMs

\* the end of the last sample of the mix ("duration=longest"), ticks
TotalTicks ==
  LET ends == {StartTicks(m) + SegDur(m) : m \in 1..N}
  IN CHOOSE t \in ends : \A u \in ends : u <= t

\* the offset of segment n of the timeline, ticks
Offset(n) == Max(0, PrevSum(n) - overlap_duration * n)

\* ---------------------------------------------------------------- C1
\* C1 as stated: segment 0 has no delay and the delay emitted for every
\* segment n >= 1 is exactly max(0, sum of the durations of 0..n-1 minus
\* overlap * n).
C1_ExactDelay ==
  /\ Defs(Delayed(0)) = {}
  /\ \A idx \in NodesOf("adelay") :
       LET n == filter_complex[idx].out[2]
       IN filter_complex[idx].num * TicksPerMs = Offset(n)

\* C1 amended: segment 0 has no delay; the delay_time computed for segment
\* n >= 1 is max(0, sum - overlap * n), and the delay emitted is that offset
\* in whole milliseconds, truncated; a complete graph of N >= 2 segments has
\* exactly the delays of segments 1..N-1; durations 30, 25, 20 s with overlap
\* 3 s give 27000 ms and 49000 ms.
C1_TruncatedDelay ==
  /\ Defs(Delayed(0)) = {}
  /\ \A n \in 1..Len(delay_times) : delay_times[n] = Offset(n)
  /\ \A idx \in NodesOf("adelay") :
       LET n == filter_complex[idx].out[2]
       IN /\ n \in 1..Len(delay_times)
          /\ filter_complex[idx].num = Offset(n) \div TicksPerMs
  /\ (GraphBuilt /\ N >= 2) =>
       /\ Len(delay_times) = N - 1
       /\ \A n \in 1..(N - 1) : Cardinality(Defs(Delayed(n))) = 1
  /\ (/\ GraphBuilt
      /\ fileDur = <<30 * Sec, 25 * Sec, 20 * Sec>>
      /\ overlap_duration = 3 * Sec) =>
       (DelayMsOf(1) = 27000 /\ DelayMsOf(2) = 49000)

\* three segments whose first lasts 30.0005 s: the offsets 27.0005 s and
\* 52.0005 - 2 * 3 s are emitted as 27000 ms and 49000 ms
C1_Witness ==
  /\ GraphBuilt
  /\ fileDur = <<30 * Sec + 1, 25 * Sec, 20 * Sec>>
  /\ overlap_duration = 3 * Sec
  /\ delay_times = <<27 * Sec + 1, 49 * Sec + 1>>
  /\ DelayMsOf(1) = 27000
  /\ DelayMsOf(2) = 49000

\* ---------------------------------------------------------------- C2
\* C2: concatenate_audio runs only directly after ffmpeg returned non-zero
\* on the mix graph of two or more segments, with every probe before it
\* successful; nothing runs after it and the graph runs at most once; it is
\* given the segment files in the caller's order, no fade having been applied
\* to them; its own failure is raised to the caller.
C2_FallbackTerminal ==
  /\ Cardinality({idx \in 1..Len(calls) : calls[idx].op = "graph"}) <= 1
  /\ \A idx \in 1..Len(calls) :
       calls[idx].op = "concat" =>
         /\ idx > 1
         /\ calls[idx - 1].op = "graph"
         /\ calls[idx - 1].rc # 0
         /\ N >= 2
         /\ \A e \in 1..(idx - 1) :
              /\ calls[e].op \in {"ffprobe", "graph"}
              /\ calls[e].op = "ffprobe" => (calls[e].rc = 0 /\ calls[e].parses)
         /\ idx = Len(calls)
         /\ pc = "done"
         /\ concat_list = segment_files
         /\ fade_cmd = <<>>
         /\ calls[idx].rc # 0 => (result = "raised" /\ error = "concat")
         /\ calls[idx].rc = 0 => result = "returned"
  /\ pc = "concat" => (calls # <<>> /\ calls[Len(calls)].op = "graph"
                                   /\ calls[Len(calls)].rc # 0)
  /\ concat_list # <<>> => \E idx \in 1..Len(calls) : calls[idx].op = "concat"

\* the fallback ran on three segments and failed
C2_Witness ==
  /\ N = 3
  /\ calls # <<>>
  /\ calls[Len(calls)].op = "concat"
  /\ calls[Len(calls)].rc # 0
  /\ result = "raised"
  /\ concat_list = <<0, 1, 2>>

\* ---------------------------------------------------------------- C3
Clamp(req, dur) == Min(Max(req, 0), dur)

\* the filters emitted for a request on a segment of duration dur are clamped
ClampedFilters(filters, req, dur) ==
  \A x \in 1..Len(filters) :
    /\ filters[x].t = "in" => filters[x].d = Clamp(req.fadeIn, dur)
    /\ filters[x].t = "out" => filters[x].d = Clamp(req.fadeOut, dur)

\* C3: every fade-in emitted lasts min(max(fadeIn, 0), duration) and every
\* fade-out min(max(fadeOut, 0), duration), in apply_fades and in the graph.
C3_FadesClamped ==
  /\ \A idx \in NodesOf("afade") :
       LET n == filter_complex[idx].out[2]
       IN ClampedFilters(filter_complex[idx].filters, fade_durations[n + 1], SegDur(n + 1))
  /\ N = 1 => ClampedFilters(fade_cmd, fade_durations[1], SegDur(1))

\* ---------------------------------------------------------------- C4
\* C4: a request without songs is rejected with an error and nothing is run
\* for it: no extraction, no probe, no graph, no concatenation, and
\* create_overlapping_mixtape is never entered with an empty list.
C4_EmptyRejected ==
  /\ (\A n \in 1..Len(form) : form[n].url = "") =>
       /\ calls = <<>>
       /\ pc = "idle"
       /\ appPc \in {"request", "done"}
       /\ appPc = "done" => flash = "rejected_empty"
  /\ pc # "idle" => segment_files # <<>>
  /\ calls # <<>> => songs # <<>>

\* a form of two entries, both without URL, was rejected
C4_Witness ==
  /\ Len(form) = 2
  /\ \A n \in 1..2 : form[n].url = ""
  /\ appPc = "done"
  /\ flash = "rejected_empty"
  /\ calls = <<>>

\* ---------------------------------------------------------------- C5
FailedProbe(c) == c.op = "ffprobe" /\ (c.rc # 0 \/ ~c.parses)

\* C5: a failed probe is the last thing the build runs: the function raises
\* at once, no graph, fade or concatenation is run before or after it, and
\* the request ends with an error, never with the success page.
C5_ProbeFatal ==
  \A idx \in 1..Len(calls) :
    FailedProbe(calls[idx]) =>
      /\ idx = Len(calls)
      /\ pc = "done"
      /\ result = "raised"
      /\ error = "probe"
      /\ \A e \in 1..Len(calls) : calls[e].op \in {"extract", "ffprobe"}
      /\ concat_list = <<>>
      /\ fade_cmd = <<>>
      /\ ~GraphBuilt
      /\ flash \in {"none", "error"}
      /\ appPc \in {"mixing", "done"}
      /\ appPc = "done" => flash = "error"

\* the second probe of a segment failed after its first one succeeded, and
\* the request ended with the error
C5_Witness ==
  /\ appPc = "done"
  /\ flash = "error"
  /\ calls # <<>>
  /\ FailedProbe(calls[Len(calls)])
  /\ \E e \in 1..(Len(calls) - 1) :
       /\ calls[e].op = "ffprobe"
       /\ calls[e].file = calls[Len(calls)].file
       /\ ~FailedProbe(calls[e])

\* ---------------------------------------------------------------- C6
\* C6: with one segment no node of a graph is ever built, no delay computed,
\* only ffprobe and the fade run of apply_fades are invoked, whose filters
\* are fades only; the concatenation never runs; the fade run is the last
\* step and its failure is raised; the function returns only after it.
C6_Passthrough ==
  N = 1 =>
    /\ filter_complex = <<>>
    /\ delay_times = <<>>
    /\ concat_list = <<>>
    /\ pc \in {"entry", "single_probe", "single_fade", "done"}
    /\ \A idx \in 1..Len(calls) :
         /\ calls[idx].op \in {"ffprobe", "fade"}
         /\ calls[idx].op = "fade" =>
              /\ idx = Len(calls)
              /\ pc = "done"
              /\ calls[idx].rc # 0 => (result = "raised" /\ error = "fade")
              /\ calls[idx].rc = 0 => result = "returned"
    /\ \A x \in 1..Len(fade_cmd) : fade_cmd[x].t \in {"in", "out"}
    /\ result = "returned" => (calls # <<>> /\ calls[Len(calls)].op = "fade")

\* one segment was faded in and out and returned
C6_Witness ==
  /\ N = 1
  /\ result = "returned"
  /\ Len(fade_cmd) = 2
  /\ Len(calls) = 2

\* ---------------------------------------------------------------- C7
\* the track of segment 0 that enters the first mix
Track0 == IF Defs(Faded(0)) # {} THEN Faded(0) ELSE InputRef(0)

\* C7: a complete graph of N >= 2 segments has exactly N-1 amix nodes, each
\* of two inputs, mixed_1 = amix(track of segment 0, delayed_1) and
\* mixed_n = amix(mixed_(n-1), delayed_n); exactly N-1 adelay nodes, one per
\* segment 1..N-1 and none for segment 0; one aresample node at 44100 Hz,
\* last; every label is defined once, [out] is consumed by no node and every
\* other label by exactly one node after its definition; every input stream
\* is consumed exactly once.
C7_MixChain ==
  (GraphBuilt /\ N >= 2) =>
    LET fc == filter_complex
        L == Len(filter_complex)
    IN /\ Cardinality(NodesOf("amix")) = N - 1
       /\ Cardinality(NodesOf("adelay")) = N - 1
       /\ NodesOf("aresample") = {L}
       /\ fc[L].num = 44100
       /\ fc[L].out = Out
       /\ Defs(Delayed(0)) = {}
       /\ \A n \in 1..(N - 1) :
            /\ \E idx \in NodesOf("amix") :
                 /\ fc[idx].out = Mixed(n)
                 /\ fc[idx].num = 2
                 /\ fc[idx].ins = <<IF n = 1 THEN Track0 ELSE Mixed(n - 1), Delayed(n)>>
            /\ \E idx \in NodesOf("adelay") :
                 /\ fc[idx].out = Delayed(n)
                 /\ fc[idx].ins \in {<<Faded(n)>>, <<InputRef(n)>>}
       /\ \A idx \in 1..L :
            /\ Defs(fc[idx].out) = {idx}
            /\ fc[idx].out # Out =>
                 /\ Cardinality(Uses(fc[idx].out)) = 1
                 /\ \A u \in Uses(fc[idx].out) : u[1] > idx
            /\ fc[idx].out = Out => Uses(Out) = {}
            /\ \A x \in 1..Len(fc[idx].ins) :
                 \/ fc[idx].ins[x][1] = "in"
                 \/ \E d \in 1..(idx - 1) : fc[d].out = fc[idx].ins[x]
       /\ \A n \in 0..(N - 1) : Cardinality(Uses(InputRef(n))) = 1

\* a complete graph of three segments, the first one faded, the second not
C7_Witness ==
  /\ GraphBuilt
  /\ N = 3
  /\ Defs(Faded(0)) # {}
  /\ Defs(Faded(1)) = {}
  /\ Cardinality(NodesOf("amix")) = 2

\* ---------------------------------------------------------------- C8
AllAtLeastOverlap == \A m \in 1..N : SegDur(m) >= overlap_duration

\* C8: when every duration is at least the overlap, the offsets computed and
\* the delays emitted never decrease from one segment to the next, starting
\* from offset 0 of segment 0.
C8_Monotone ==
  AllAtLeastOverlap =>
    /\ Defs(Delayed(0)) = {}
    /\ \A n \in 1..Len(delay_times) :
         /\ delay_times[n] >= 0
         /\ n > 1 => delay_times[n - 1] <= delay_times[n]
    /\ \A n \in 1..(N - 1) :
         Defs(Delayed(n)) # {} =>
           /\ DelayMsOf(n) >= 0
           /\ n > 1 => DelayMsOf(n - 1) <= DelayMsOf(n)

\* three segments with a positive overlap, the third placed after the second
C8_Witness ==
  /\ GraphBuilt
  /\ N = 3
  /\ overlap_duration > 0
  /\ AllAtLeastOverlap
  /\ Len(delay_times) = 2
  /\ delay_times[1] < delay_times[2]
  /\ SegDur(1) # SegDur(2)

\* ---------------------------------------------------------------- C9
\* C9 as stated: with overlap 0 every segment starts exactly at the sum of
\* the durations before it and the mix lasts the sum of all durations.
C9_SumExact ==
  (GraphBuilt /\ N >= 2 /\ overlap_duration = 0) =>
    /\ \A m \in 2..N : StartTicks(m) = PrevSum(m - 1)
    /\ TotalTicks = PrevSum(N)

\* C9 amended: with overlap 0 the offset computed for segment n is the sum of
\* the durations before it and the delay emitted is that sum in whole
\* milliseconds, truncated; the mix lasts at most the sum of all durations
\* and less than one millisecond short of it, and exactly the sum when every
\* duration is a whole number of milliseconds.
C9_SumWithinMs ==
  (GraphBuilt /\ N >= 2 /\ overlap_duration = 0) =>
    /\ \A n \in 1..(N - 1) :
         /\ delay_times[n] = PrevSum(n)
         /\ DelayMsOf(n) = PrevSum(n) \div TicksPerMs
    /\ TotalTicks <= PrevSum(N)
    /\ PrevSum(N) - TotalTicks < TicksPerMs
    /\ (\A m \in 1..N : SegDur(m) % TicksPerMs = 0) => TotalTicks = PrevSum(N)

\* three segments without overlap whose mix is shorter than their sum
C9_Witness ==
  /\ GraphBuilt
  /\ N = 3
  /\ overlap_duration = 0
  /\ TotalTicks < PrevSum(3)
  /\ delay_times = <<PrevSum(1), PrevSum(2)>>

\* --------------------------------------------------------------- C10
\* the filters the graph applies to segment n (none: no afade node)
FiltersOfSegment(n) ==
  IF Defs(Faded(n)) = {} THEN <<>>
  ELSE filter_complex[CHOOSE idx \in Defs(Faded(n)) : TRUE].filters

\* every fade-out of the filters starts at max(0, dur - its length), never
\* before 0
FadeOutStartsOk(filters, dur) ==
  \A x \in 1..Len(filters) :
    filters[x].t = "out" =>
      /\ filters[x].st = Max(0, dur - filters[x].d)
      /\ filters[x].st >= 0

FadeRan == \E idx \in 1..Len(calls) : calls[idx].op = "fade"

\* C10: the fade-out emitted by apply_fades and by the graph starts at
\* max(0, duration - fade-out length) and never before 0; what the graph
\* emits for a segment is what apply_fades computes for the same duration
\* and request, and the other way round; a 40 s segment with fades 2 and 5
\* gets its fade-out at 35 s.
C10_FadeOutStart ==
  /\ (GraphBuilt /\ N >= 2) =>
       \A n \in 0..(N - 1) :
         LET req == fade_durations[n + 1]
         IN /\ FiltersOfSegment(n) = apply_fades_filters(req.fadeIn, req.fadeOut, SegDur(n + 1))
            /\ FadeOutStartsOk(FiltersOfSegment(n), SegDur(n + 1))
  /\ (N = 1 /\ FadeRan) =>
       LET req == fade_durations[1]
       IN /\ fade_cmd = fade_filters(req.fadeIn, req.fadeOut, SegDur(1))
          /\ FadeOutStartsOk(fade_cmd, SegDur(1))
  /\ (/\ FadeRan
      /\ fileDur = <<40 * Sec>>
      /\ fade_durations = <<FadeReq(2 * Sec, 5 * Sec)>>) =>
       fade_cmd = <<AfadeIn(2 * Sec), AfadeOut(35 * Sec, 5 * Sec)>>

\* the 40 s segment was faded, its fade-out starting at 35 s
C10_Witness ==
  /\ N = 1
  /\ result = "returned"
  /\ fileDur = <<40 * Sec>>
  /\ Len(fade_cmd) = 2
  /\ fade_cmd[2].st = 35 * Sec

\* --------------------------------------------------------------- C11
\* the stages of kind t ("in" or "out") the graph applies to segment n
StagesOf(n, t) ==
  {x \in 1..Len(FiltersOfSegment(n)) : FiltersOfSegment(n)[x].t = t}

\* the stream of segment n that the graph delays (n >= 1) or mixes first (n = 0)
StreamOf(n) ==
  IF n = 0
  THEN filter_complex[CHOOSE idx \in Defs(Mixed(1)) : TRUE].ins[1]
  ELSE filter_complex[CHOOSE idx \in Defs(Delayed(n)) : TRUE].ins[1]

\* C11: in a complete graph of N >= 2 segments, segment n has exactly one
\* fade-in stage when its fade-in duration min(max(fadeIn, 0), duration) is
\* not zero and none otherwise, and the same for the fade-out; its afade node
\* exists exactly when one of the two is emitted, and reads [n:a]; the stream
\* delayed and mixed is [faded n] when the node exists and the raw input
\* [n:a] when it does not.
C11_FadeStages ==
  (GraphBuilt /\ N >= 2) =>
    \A n \in 0..(N - 1) :
      LET req == fade_durations[n + 1]
          fin == Clamp(req.fadeIn, SegDur(n + 1))
          fout == Clamp(req.fadeOut, SegDur(n + 1))
      IN /\ Cardinality(StagesOf(n, "in")) = IF fin # 0 THEN 1 ELSE 0
         /\ Cardinality(StagesOf(n, "out")) = IF fout # 0 THEN 1 ELSE 0
         /\ (Defs(Faded(n)) # {}) <=> (fin # 0 \/ fout # 0)
         /\ \A idx \in Defs(Faded(n)) :
              /\ filter_complex[idx].op = "afade"
              /\ filter_complex[idx].ins = <<InputRef(n)>>
         /\ StreamOf(n) = IF fin = 0 /\ fout = 0 THEN InputRef(n) ELSE Faded(n)

\* two segments: the first with a fade-out only, the second, with a negative
\* and a zero request, delayed and mixed unfiltered
C11_Witness ==
  /\ GraphBuilt
  /\ N = 2
  /\ fade_durations[1].fadeIn = 0 /\ fade_durations[1].fadeOut > 0
  /\ fade_durations[2].fadeIn < 0 /\ fade_durations[2].fadeOut = 0
  /\ Len(FiltersOfSegment(0)) = 1
  /\ Defs(Faded(1)) = {}
  /\ StreamOf(1) = InputRef(1)

\* --------------------------------------------------------------- C12
\* the request got as far as creating its session directory and has ended
BuildConcluded == appPc = "done" /\ session # "none"

\* C12: when a build concludes its intermediate files are gone: after a
\* failure at any stage following the creation of the session directory no
\* file of the build remains, and after a success the downloaded files and
\* the segment files are removed and only the final mixtape is left.
C12_Discarded ==
  BuildConcluded =>
    IF flash = "success" THEN disk = {FinalFile} ELSE disk = {}

\* --------------------------------------------------------------- C13
\* the positions in the log of the call at which provider p was attempted
TriesOf(p) == {x \in 1..Len(tries) : tries[x].provider = p}

\* C13: download_youtube_audio tries its providers in a fixed order and the
\* first success wins: cnvmp3 is attempted at most 2 times in one call, ytmp3
\* only after both cnvmp3 attempts have failed and at most once, no provider
\* is attempted after a success, and the call fails only after every attempt
\* of the list has failed (read here for a call that got past its test of
\* HAS_SELENIUM).
C13_ProviderOrder ==
  /\ Cardinality(TriesOf("cnvmp3")) <= 2
  /\ Cardinality(TriesOf("ytmp3")) <= 1
  /\ \A x \in TriesOf("ytmp3") :
       /\ x = 3
       /\ tries[1] = Attempt("cnvmp3", "failed")
       /\ tries[2] = Attempt("cnvmp3", "failed")
  /\ \A x \in 1..Len(tries) : tries[x].outcome = "ok" => x = Len(tries)
  /\ (dl_result = "raised" /\ has_selenium) =>
       /\ Len(tries) >= 3
       /\ \A x \in 1..Len(tries) : tries[x].outcome # "ok"

====
